---------------------------- MODULE Spec2Model ----------------------------
(***************************************************************************)
(* Model of the encryption layer of lrzip-next (src/util.c): lrz_keygen,   *)
(* lrz_crypt, lrz_stretch and decrypt_header, together with the libgcrypt  *)
(* handles they drive.  One process runs the functions one statement group *)
(* at a time; pc is its position.                                          *)
(*                                                                         *)
(* The AES block cipher and the SHA-512 hash are consumed capabilities.    *)
(* They are modelled by a small keyed permutation of 16-byte blocks and a  *)
(* small running hash with a 64-byte digest: what the code relies on (a    *)
(* permutation with an inverse, a deterministic digest of the bytes        *)
(* written) is kept, their cryptographic strength is not.                  *)
(***************************************************************************)
EXTENDS Integers, Sequences, FiniteSets, TLC

(* ------------------------------ sizes ---------------------------------- *)

\* lrzip_private.h
CBC_LEN == 16
HASH_LEN == 64
SALT_LEN == 16
PASS_LEN == 512
HEADER_LEN == 25

LRZ_DECRYPT == "LRZ_DECRYPT"
LRZ_ENCRYPT == "LRZ_ENCRYPT"
LRZ_VALIDATE == "LRZ_VALIDATE"
Directions == {LRZ_DECRYPT, LRZ_ENCRYPT, LRZ_VALIDATE}

\* bounds of the exploration
MaxLen == 33
MaxSeed == 1
MaxPassLen == 1
MaxEncLoops == 1
\* what an uninitialised byte of a fresh stack frame holds
StackJunk == 170

ByteMod == 256

(* ------------------------------ bytes ---------------------------------- *)

RECURSIVE Xor8(_, _)
Xor8(a, b) ==
    IF a = 0 THEN b
    ELSE IF b = 0 THEN a
    ELSE (((a % 2) + (b % 2)) % 2) + 2 * Xor8(a \div 2, b \div 2)

Fill(n, v) == [i \in 1..n |-> v]
Zeros(n) == Fill(n, 0)
IsZero(s) == \A i \in 1..Len(s) : s[i] = 0

\* memcpy(dst + off, src, n) on a sequence dst, off counted from 0
Put(dst, off, src, n) ==
    [i \in 1..Len(dst) |-> IF i > off /\ i <= off + n THEN src[i - off] ELSE dst[i]]

Take(s, n) == [i \in 1..n |-> s[i]]

\* the bytes a caller hands in: a pattern chosen by a seed
Gen(seed, n) == [i \in 1..n |-> (seed * 89 + i * 11 + ((i * i) % 7) * 29) % ByteMod]

(* --------------------------- the hash context -------------------------- *)

MdNew == [a |-> 7, b |-> 1]

\* the bytes lo..hi folded into one step of the running state: v is their
\* weighted sum and p the weight the earlier state is multiplied by
RECURSIVE MdFold(_, _, _, _, _)
MdFold(bytes, lo, hi, mult, mod) ==
    IF lo > hi THEN [v |-> 0, p |-> 1]
    ELSE IF lo = hi THEN [v |-> (bytes[lo] + 1) % mod, p |-> mult % mod]
    ELSE LET mid == (lo + hi) \div 2
             l == MdFold(bytes, lo, mid, mult, mod)
             r == MdFold(bytes, mid + 1, hi, mult, mod)
         IN  [v |-> (l.v * r.p + r.v) % mod, p |-> (l.p * r.p) % mod]

\* gcry_md_write: the state absorbs the bytes in order
MdWrite(ctx, bytes) ==
    LET fa == MdFold(bytes, 1, Len(bytes), 33, ByteMod)
        fb == MdFold(bytes, 1, Len(bytes), 7, 251)
    IN  [a |-> (ctx.a * fa.p + fa.v) % ByteMod, b |-> (ctx.b * fb.p + fb.v) % 251]

\* gcry_md_read: the HASH_LEN-byte digest of what was written
MdRead(ctx) == [i \in 1..HASH_LEN |-> (ctx.a * (2 * i + 1) + ctx.b * (i + 3) + i) % ByteMod]

\* htole64(j) as its eight bytes
Htole64(j) == [i \in 1..8 |-> IF i = 1 THEN j % ByteMod
                              ELSE IF i = 2 THEN (j \div ByteMod) % ByteMod ELSE 0]

(* ------------------------------ the cipher ----------------------------- *)

\* xor128: a[0] ^= b[0]; a[1] ^= b[1] over two 64-bit halves, i.e. 16 bytes
xor128(pa, pb) == [i \in 1..CBC_LEN |-> Xor8(pa[i], pb[i])]

SBox(x) == (x * 5 + 17) % ByteMod
SBoxInv(y) == ((y + 239) * 205) % ByteMod

\* one block under key k: a keyed permutation of CBC_LEN-byte blocks
AesEncryptBlock(k, b) ==
    [i \in 1..CBC_LEN |-> SBox(Xor8(b[(i % CBC_LEN) + 1], k[i]))]

AesDecryptBlock(k, c) ==
    [m \in 1..CBC_LEN |->
        LET i == ((m + CBC_LEN - 2) % CBC_LEN) + 1
        IN  Xor8(SBoxInv(c[i]), k[i])]

Block(data, b) == [i \in 1..CBC_LEN |-> data[(b - 1) * CBC_LEN + i]]

\* gcry_cipher_encrypt on a CBC handle: data is a whole number of blocks,
\* chain is the handle's IV; the handle keeps the last ciphertext block
RECURSIVE CbcEncFrom(_, _, _, _)
CbcEncFrom(k, chain, data, b) ==
    IF b * CBC_LEN > Len(data) THEN [out |-> <<>>, iv |-> chain]
    ELSE LET c == AesEncryptBlock(k, xor128(Block(data, b), chain))
             r == CbcEncFrom(k, c, data, b + 1)
         IN  [out |-> c \o r.out, iv |-> r.iv]

CbcEncrypt(k, chain, data) == CbcEncFrom(k, chain, data, 1)

\* gcry_cipher_decrypt on a CBC handle
RECURSIVE CbcDecFrom(_, _, _, _)
CbcDecFrom(k, chain, data, b) ==
    IF b * CBC_LEN > Len(data) THEN [out |-> <<>>, iv |-> chain]
    ELSE LET c == Block(data, b)
             r == CbcDecFrom(k, c, data, b + 1)
         IN  [out |-> xor128(AesDecryptBlock(k, c), chain) \o r.out, iv |-> r.iv]

CbcDecrypt(k, chain, data) == CbcDecFrom(k, chain, data, 1)

(* --------------------- the memory around the buffer --------------------- *)

\* offsets relative to the caller's buf: CBC_LEN bytes in front of it belong
\* to someone else, as do the bytes from len on
Offsets == (0 - CBC_LEN)..(MaxLen - 1)

MemRead(m, off, cnt) == [i \in 1..cnt |-> m[off + i - 1]]

MemWrite(m, off, bytes) ==
    [o \in DOMAIN m |-> IF o >= off /\ o < off + Len(bytes) THEN bytes[o - off + 1] ELSE m[o]]

\* an access of cnt bytes at buf + off stays inside buf[0 .. l)
InBuf(l, off, cnt) == cnt >= 0 /\ off >= 0 /\ off + cnt <= l

(* ------------------------------ variables ------------------------------ *)

VARIABLES
    pc,          \* position of the process
    caller,      \* who called lrz_crypt: "driver" or "decrypt_header"
    hash,        \* control->hash
    salt_pass,   \* control->salt_pass, Len = control->salt_pass_len
    encloops,    \* control->encloops
    stretched,   \* lrz_stretch has returned
    md,          \* lrz_keygen's gcry_sha512_handle
    smd,         \* lrz_stretch's gcry_sha512_handle and the context behind it
    mdOpen,      \* owners of the hash contexts open in the process
    j, n,        \* lrz_stretch loop
    mem,         \* memory around buf, by offset from buf
    len, salt, dir,          \* lrz_crypt arguments len, salt, encrypt
    M, N,
    key, iv, tmp0, tmp1,     \* lrz_crypt locals
    kbuf,                    \* lrz_keygen's buf
    locked,                  \* which of key, iv, kbuf are mlock()ed
    cbc, ecb,                \* gcry_aes_cbc_handle, gcry_aes_ecb_handle
    ret,                     \* lrz_crypt's ret
    oob,         \* an access outside buf[0 .. len) was made in this call
    negcount,    \* a primitive was given a negative byte count in this call
    failed,      \* a cipher primitive of this call returned an error
    lateOps,     \* cipher primitive calls made after one had failed
    cipherOps,   \* cipher primitive calls made in this call
    hashFailed,  \* a hash primitive of this call's key derivation failed
    orig,        \* the bytes first handed to lrz_crypt
    inbuf,       \* the bytes handed to the current lrz_crypt call
    chain,       \* the calls that succeeded on the buffer, in order
    fields,      \* decrypt_header's c_type, c_len, u_len, last_head objects
    fields0,     \* the header fields the writer started from
    hret         \* decrypt_header's result: "none", "true", "false"

control == <<hash, salt_pass, encloops, stretched>>
stretch == <<smd, j, n>>
args == <<len, salt, dir>>
geo == <<M, N>>
keys == <<key, iv>>
tmps == <<tmp0, tmp1>>
acc == <<oob, negcount>>
prim == <<failed, lateOps, cipherOps>>
driver == <<orig, inbuf, chain, fields, fields0, hret>>

vars == <<pc, caller, control, md, mdOpen, stretch, mem, args, geo, keys, tmps, kbuf,
          locked, cbc, ecb, ret, acc, prim, hashFailed, driver>>

NoMd == [valid |-> FALSE, ctx |-> MdNew]
NoCipher == [open |-> FALSE, haskey |-> FALSE, k |-> <<>>, iv |-> <<>>]
NoFields == [c_type |-> <<>>, c_len |-> <<>>, u_len |-> <<>>, last_head |-> <<>>]

Init ==
    /\ pc = "idle"
    /\ caller = "driver"
    /\ hash = Zeros(HASH_LEN)
    /\ \E l \in 1..MaxPassLen : salt_pass = Gen(3, l)
    /\ encloops = MaxEncLoops
    /\ stretched = FALSE
    /\ md = NoMd
    /\ smd = NoMd
    /\ mdOpen = {}
    /\ j = 0
    /\ n = 0
    /\ mem = [o \in Offsets |-> 0]
    /\ len = 0
    /\ salt = Zeros(SALT_LEN)
    /\ dir = LRZ_ENCRYPT
    /\ M = 0
    /\ N = 0
    /\ key = Zeros(HASH_LEN)
    /\ iv = Zeros(HASH_LEN)
    /\ tmp0 = Zeros(CBC_LEN)
    /\ tmp1 = Zeros(CBC_LEN)
    /\ kbuf = Zeros(HASH_LEN + SALT_LEN + PASS_LEN)
    /\ locked = {}
    /\ cbc = NoCipher
    /\ ecb = NoCipher
    /\ ret = FALSE
    /\ oob = FALSE
    /\ negcount = FALSE
    /\ failed = FALSE
    /\ lateOps = 0
    /\ cipherOps = 0
    /\ hashFailed = FALSE
    /\ orig = <<>>
    /\ inbuf = <<>>
    /\ chain = <<>>
    /\ fields = NoFields
    /\ fields0 = NoFields
    /\ hret = "none"

(* ------------------------------ lrz_stretch ---------------------------- *)

CallStretch ==
    /\ pc = "idle"
    /\ ~stretched
    /\ pc' = "s_open"
    /\ UNCHANGED <<caller, control, md, mdOpen, stretch, mem, args, geo, keys, tmps, kbuf,
                   locked, cbc, ecb, ret, acc, prim, hashFailed, driver>>

\* gcry_md_open (its result is not looked at) and the round count
StretchOpen ==
    /\ pc = "s_open"
    /\ \E ok \in BOOLEAN :
         /\ smd' = [valid |-> ok, ctx |-> MdNew]
         /\ mdOpen' = IF ok THEN mdOpen \cup {"lrz_stretch"} ELSE mdOpen
    /\ n' = (encloops * HASH_LEN) \div (Len(salt_pass) + 8)
    /\ j' = 0
    /\ pc' = "s_loop"
    /\ UNCHANGED <<caller, control, md, mem, args, geo, keys, tmps, kbuf, locked, cbc,
                   ecb, ret, acc, prim, hashFailed, driver>>

\* what one round feeds the hash: the counter, then the passphrase
StretchFeed(ctx, jj, pass) == MdWrite(MdWrite(ctx, Htole64(jj)), pass)

\* one round of the loop; a NULL handle is dereferenced
StretchRound ==
    /\ pc = "s_loop"
    /\ j < n
    /\ IF smd.valid
       THEN /\ smd' = [smd EXCEPT !.ctx = StretchFeed(@, j, salt_pass)]
            /\ j' = j + 1
            /\ pc' = "s_loop"
       ELSE /\ pc' = "crashed"
            /\ UNCHANGED <<smd, j>>
    /\ UNCHANGED <<caller, control, md, mdOpen, n, mem, args, geo, keys, tmps, kbuf,
                   locked, cbc, ecb, ret, acc, prim, hashFailed, driver>>

\* the loop ends and the function returns
StretchReturn ==
    /\ pc = "s_loop"
    /\ j >= n
    /\ pc' = "idle"
    /\ stretched' = TRUE
    /\ UNCHANGED <<caller, hash, salt_pass, encloops, md, mdOpen, stretch, mem, args, geo,
                   keys, tmps, kbuf, locked, cbc, ecb, ret, acc, prim, hashFailed, driver>>

(* --------------------------- calls of lrz_crypt ------------------------- *)

\* the frame of a fresh lrz_crypt call: uninitialised locals hold junk, ret = false
EnterCrypt ==
    /\ M' = 0
    /\ N' = 0
    /\ key' = Fill(HASH_LEN, StackJunk)
    /\ iv' = Fill(HASH_LEN, StackJunk)
    /\ tmp0' = Fill(CBC_LEN, StackJunk)
    /\ tmp1' = Fill(CBC_LEN, StackJunk)
    /\ kbuf' = Fill(HASH_LEN + SALT_LEN + PASS_LEN, StackJunk)
    /\ cbc' = NoCipher
    /\ ecb' = NoCipher
    /\ ret' = FALSE
    /\ oob' = FALSE
    /\ negcount' = FALSE
    /\ failed' = FALSE
    /\ lateOps' = 0
    /\ cipherOps' = 0
    /\ hashFailed' = FALSE

\* a caller's memory: its buffer of l bytes at offset 0 between foreign bytes
Layout(front, bytes, l) ==
    [o \in Offsets |-> IF o < 0 THEN front[o + CBC_LEN + 1]
                       ELSE IF o < l THEN bytes[o + 1]
                       ELSE StackJunk]

\* lrz_crypt(control, buf, l, salt, d) on a fresh buffer
CallCrypt(l, seed, d) ==
    /\ pc = "idle"
    /\ stretched
    /\ orig = <<>>
    /\ mem' = Layout(Gen(seed + 7, CBC_LEN), Gen(seed, l), l)
    /\ len' = l
    /\ salt' = Gen(seed + 1, SALT_LEN)
    /\ dir' = d
    /\ orig' = Gen(seed, l)
    /\ inbuf' = Gen(seed, l)
    /\ caller' = "driver"
    /\ EnterCrypt
    /\ pc' = "c_entry"
    /\ UNCHANGED <<control, md, mdOpen, stretch, locked, chain, fields, fields0, hret>>

\* lrz_crypt in a decrypting direction on the buffer an ENCRYPT call produced
CallDecryptResult(d) ==
    /\ pc = "idle"
    /\ chain = <<LRZ_ENCRYPT>>
    /\ dir = LRZ_ENCRYPT
    /\ fields0 = NoFields
    /\ d \in {LRZ_DECRYPT, LRZ_VALIDATE}
    /\ dir' = d
    /\ caller' = "driver"
    /\ inbuf' = MemRead(mem, 0, len)
    /\ EnterCrypt
    /\ pc' = "c_entry"
    /\ UNCHANGED <<control, md, mdOpen, stretch, mem, len, salt, locked, orig, chain,
                   fields, fields0, hret>>

(* ------------------------------ lrz_keygen ------------------------------ *)

\* mlock(key), mlock(iv), M and N; then lrz_keygen is entered
CryptEntry ==
    /\ pc = "c_entry"
    /\ locked' = locked \cup {"key", "iv"}
    /\ M' = len % CBC_LEN
    /\ N' = len - (len % CBC_LEN)
    /\ pc' = "kg_copy1"
    /\ UNCHANGED <<caller, control, md, mdOpen, stretch, mem, args, keys, tmps, kbuf,
                   cbc, ecb, ret, acc, prim, hashFailed, driver>>

\* buf = first || salt || salt_pass
KeygenInput(b, first, slt, pass) ==
    Put(Put(Put(b, 0, first, HASH_LEN), HASH_LEN, slt, SALT_LEN),
        HASH_LEN + SALT_LEN, pass, Len(pass))

KeygenCopy1 ==
    /\ pc = "kg_copy1"
    /\ locked' = locked \cup {"kbuf"}
    /\ kbuf' = KeygenInput(kbuf, hash, salt, salt_pass)
    /\ pc' = "kg_open"
    /\ UNCHANGED <<caller, control, md, mdOpen, stretch, mem, args, geo, keys, tmps,
                   cbc, ecb, ret, acc, prim, hashFailed, driver>>

\* gcry_md_open: its result is not looked at
KeygenOpen ==
    /\ pc = "kg_open"
    /\ \E ok \in BOOLEAN :
         /\ md' = [valid |-> ok, ctx |-> MdNew]
         /\ mdOpen' = IF ok THEN mdOpen \cup {"lrz_keygen"} ELSE mdOpen
         /\ hashFailed' = ~ok
    /\ pc' = "kg_hash1"
    /\ UNCHANGED <<caller, control, stretch, mem, args, geo, keys, tmps, kbuf, locked,
                   cbc, ecb, ret, acc, prim, driver>>

\* the digest of the first HASH_LEN + SALT_LEN + salt_pass_len bytes of buf,
\* written to a fresh (or reset) context
KeygenDigest(b, passlen) == MdRead(MdWrite(MdNew, Take(b, HASH_LEN + SALT_LEN + passlen)))

\* gcry_md_write and gcry_md_read into key; a NULL handle or a NULL digest
\* is dereferenced
KeygenHash1 ==
    /\ pc = "kg_hash1"
    /\ \E ok \in BOOLEAN :
         IF md.valid /\ ok
         THEN /\ md' = [md EXCEPT !.ctx = MdWrite(@, Take(kbuf, HASH_LEN + SALT_LEN + Len(salt_pass)))]
              /\ key' = MdRead(md'.ctx)
              /\ pc' = "kg_hash2"
              /\ UNCHANGED hashFailed
         ELSE /\ pc' = "crashed"
              /\ hashFailed' = TRUE
              /\ UNCHANGED <<md, key>>
    /\ UNCHANGED <<caller, control, mdOpen, stretch, mem, args, geo, iv, tmps, kbuf,
                   locked, cbc, ecb, ret, acc, prim, driver>>

\* gcry_md_reset, buf = key || salt || salt_pass, write, read into iv
KeygenHash2 ==
    /\ pc = "kg_hash2"
    /\ \E ok \in BOOLEAN :
         IF ok
         THEN /\ kbuf' = KeygenInput(kbuf, key, salt, salt_pass)
              /\ md' = [md EXCEPT !.ctx = MdWrite(MdNew, Take(kbuf', HASH_LEN + SALT_LEN + Len(salt_pass)))]
              /\ iv' = MdRead(md'.ctx)
              /\ pc' = "kg_close"
              /\ UNCHANGED hashFailed
         ELSE /\ kbuf' = KeygenInput(kbuf, key, salt, salt_pass)
              /\ pc' = "crashed"
              /\ hashFailed' = TRUE
              /\ UNCHANGED <<md, iv>>
    /\ UNCHANGED <<caller, control, mdOpen, stretch, mem, args, geo, key, tmps,
                   locked, cbc, ecb, ret, acc, prim, driver>>

\* memset(buf, 0, sizeof(buf))
KeygenClear(b) == Zeros(Len(b))

\* gcry_md_close, memset and munlock of buf; back in lrz_crypt
KeygenClose ==
    /\ pc = "kg_close"
    /\ md' = NoMd
    /\ mdOpen' = mdOpen \ {"lrz_keygen"}
    /\ kbuf' = KeygenClear(kbuf)
    /\ locked' = locked \ {"kbuf"}
    /\ pc' = "c_open"
    /\ UNCHANGED <<caller, control, stretch, mem, args, geo, keys, tmps, cbc, ecb, ret,
                   acc, prim, hashFailed, driver>>

(* ------------------------------- lrz_crypt ------------------------------ *)

\* a failure that returns on the spot instead of going through error:
ErrReturn(ok, next) == IF ok THEN next ELSE "c_ret"

\* a failure whose result is not looked at
ErrIgnored(ok, next) == next

\* if (unlikely(gcry_error)) failure_goto((...), error);
ErrGoto(ok, next) == IF ok THEN next ELSE "c_error"

\* bookkeeping of one cipher primitive call and its result
Primitive(ok) ==
    /\ cipherOps' = cipherOps + 1
    /\ lateOps' = IF failed THEN lateOps + 1 ELSE lateOps
    /\ failed' = (failed \/ ~ok)

\* bookkeeping of an access of cnt bytes at buf + off
Access(off, cnt) == oob' = (oob \/ ~InBuf(len, off, cnt))

\* gcry_cipher_open of the CBC handle
CbcOpen ==
    /\ pc = "c_open"
    /\ \E ok \in BOOLEAN :
         /\ Primitive(ok)
         /\ cbc' = [NoCipher EXCEPT !.open = ok]
         /\ pc' = ErrGoto(ok, "c_setkey")
    /\ UNCHANGED <<caller, control, md, mdOpen, stretch, mem, args, geo, keys, tmps,
                   kbuf, locked, ecb, ret, acc, hashFailed, driver>>

\* gcry_cipher_setkey(handle, key, CBC_LEN)
CbcSetkey ==
    /\ pc = "c_setkey"
    /\ \E ok \in BOOLEAN :
         /\ Primitive(ok)
         /\ cbc' = IF ok THEN [cbc EXCEPT !.haskey = TRUE, !.k = Take(key, CBC_LEN)] ELSE cbc
         /\ pc' = ErrGoto(ok, "c_setiv")
    /\ UNCHANGED <<caller, control, md, mdOpen, stretch, mem, args, geo, keys, tmps,
                   kbuf, locked, ecb, ret, acc, hashFailed, driver>>

\* the branch taken after the handle is set up
Branch(d, m) ==
    IF d = LRZ_ENCRYPT THEN "e_cbc"
    ELSE IF m # 0 THEN "d_ecb_open" ELSE "d_cbc_all"

\* gcry_cipher_setiv(handle, iv, CBC_LEN)
CbcSetiv ==
    /\ pc = "c_setiv"
    /\ \E ok \in BOOLEAN :
         /\ Primitive(ok)
         /\ cbc' = IF ok THEN [cbc EXCEPT !.iv = Take(iv, CBC_LEN)] ELSE cbc
         /\ pc' = ErrGoto(ok, Branch(dir, M))
    /\ UNCHANGED <<caller, control, md, mdOpen, stretch, mem, args, geo, keys, tmps,
                   kbuf, locked, ecb, ret, acc, hashFailed, driver>>

\* gcry_cipher_encrypt(handle, buf, N, NULL, 0): the first N bytes, in place
EncCbc ==
    /\ pc = "e_cbc"
    /\ \E ok \in BOOLEAN :
         /\ Primitive(ok)
         /\ IF ok
            THEN LET r == CbcEncrypt(cbc.k, cbc.iv, MemRead(mem, 0, N))
                 IN  /\ mem' = MemWrite(mem, 0, r.out)
                     /\ cbc' = [cbc EXCEPT !.iv = r.iv]
            ELSE UNCHANGED <<mem, cbc>>
         /\ pc' = ErrGoto(ok, IF M # 0 THEN "e_tail" ELSE "c_close")
    /\ Access(0, N)
    /\ UNCHANGED <<caller, control, md, mdOpen, stretch, args, geo, keys, tmps, kbuf,
                   locked, ecb, ret, negcount, hashFailed, driver>>

\* memset(t, 0, CBC_LEN); memcpy(t, buf + N, M)
PadTail(tail, m) == [i \in 1..CBC_LEN |-> IF i <= m THEN tail[i] ELSE 0]

\* the padded tail goes through the CBC handle into tmp1
EncTail ==
    /\ pc = "e_tail"
    /\ tmp0' = PadTail(MemRead(mem, N, M), M)
    /\ \E ok \in BOOLEAN :
         /\ Primitive(ok)
         /\ IF ok
            THEN LET r == CbcEncrypt(cbc.k, cbc.iv, tmp0')
                 IN  /\ tmp1' = r.out
                     /\ cbc' = [cbc EXCEPT !.iv = r.iv]
            ELSE UNCHANGED <<tmp1, cbc>>
         /\ pc' = ErrGoto(ok, "e_steal")
    /\ Access(N, M)
    /\ UNCHANGED <<caller, control, md, mdOpen, stretch, mem, args, geo, keys, kbuf,
                   locked, ecb, ret, negcount, hashFailed, driver>>

\* the two copies in the other order: the stolen bytes are taken from tmp1
StealSwapped(m, nn, mm, t1) ==
    MemWrite(MemWrite(m, nn - CBC_LEN, t1), nn, Take(t1, mm))

\* memcpy(buf + N, buf + N - CBC_LEN, M); memcpy(buf + N - CBC_LEN, tmp1, CBC_LEN)
Steal(m, nn, mm, t1) ==
    MemWrite(MemWrite(m, nn, MemRead(m, nn - CBC_LEN, mm)), nn - CBC_LEN, t1)

\* the two copies; in front of the buffer they hit foreign memory or fault
EncSteal ==
    /\ pc = "e_steal"
    /\ \/ /\ mem' = Steal(mem, N, M, tmp1)
          /\ pc' = "c_close"
       \/ /\ N - CBC_LEN < 0
          /\ pc' = "crashed"
          /\ UNCHANGED mem
    /\ oob' = (oob \/ ~InBuf(len, N - CBC_LEN, M) \/ ~InBuf(len, N, M)
                   \/ ~InBuf(len, N - CBC_LEN, CBC_LEN))
    /\ UNCHANGED <<caller, control, md, mdOpen, stretch, args, geo, keys, tmps, kbuf,
                   locked, cbc, ecb, ret, negcount, prim, hashFailed, driver>>

\* gcry_cipher_open of the ECB handle
DecEcbOpen ==
    /\ pc = "d_ecb_open"
    /\ \E ok \in BOOLEAN :
         /\ Primitive(ok)
         /\ ecb' = [NoCipher EXCEPT !.open = ok]
         /\ pc' = ErrGoto(ok, "d_ecb_setkey")
    /\ UNCHANGED <<caller, control, md, mdOpen, stretch, mem, args, geo, keys, tmps,
                   kbuf, locked, cbc, ret, acc, hashFailed, driver>>

\* gcry_cipher_setkey(ecb, key, CBC_LEN)
DecEcbSetkey ==
    /\ pc = "d_ecb_setkey"
    /\ \E ok \in BOOLEAN :
         /\ Primitive(ok)
         /\ ecb' = IF ok THEN [ecb EXCEPT !.haskey = TRUE, !.k = Take(key, CBC_LEN)] ELSE ecb
         /\ pc' = ErrGoto(ok, "d_cbc_head")
    /\ UNCHANGED <<caller, control, md, mdOpen, stretch, mem, args, geo, keys, tmps,
                   kbuf, locked, cbc, ret, acc, hashFailed, driver>>

\* gcry_cipher_decrypt(cbc, buf, N - CBC_LEN, NULL, 0); a negative count
\* becomes a huge size_t: the provider rejects it or runs off the memory
DecCbcHead ==
    /\ pc = "d_cbc_head"
    /\ IF N - CBC_LEN < 0
       THEN /\ negcount' = TRUE
            /\ \/ /\ Primitive(FALSE)
                  /\ pc' = ErrGoto(FALSE, "d_ecb_dec")
                  /\ UNCHANGED oob
               \/ /\ Primitive(TRUE)
                  /\ pc' = "crashed"
                  /\ oob' = TRUE
            /\ UNCHANGED <<mem, cbc>>
       ELSE /\ \E ok \in BOOLEAN :
                 /\ Primitive(ok)
                 /\ IF ok
                    THEN LET r == CbcDecrypt(cbc.k, cbc.iv, MemRead(mem, 0, N - CBC_LEN))
                         IN  /\ mem' = MemWrite(mem, 0, r.out)
                             /\ cbc' = [cbc EXCEPT !.iv = r.iv]
                    ELSE UNCHANGED <<mem, cbc>>
                 /\ pc' = ErrGoto(ok, "d_ecb_dec")
            /\ Access(0, N - CBC_LEN)
            /\ UNCHANGED negcount
    /\ UNCHANGED <<caller, control, md, mdOpen, stretch, args, geo, keys, tmps, kbuf,
                   locked, ecb, ret, hashFailed, driver>>

\* gcry_cipher_decrypt(ecb, tmp0, CBC_LEN, buf + N - CBC_LEN, CBC_LEN)
DecEcb ==
    /\ pc = "d_ecb_dec"
    /\ \E ok \in BOOLEAN :
         /\ Primitive(ok)
         /\ tmp0' = IF ok THEN AesDecryptBlock(ecb.k, MemRead(mem, N - CBC_LEN, CBC_LEN))
                          ELSE tmp0
         /\ pc' = ErrGoto(ok, "d_xor")
    /\ Access(N - CBC_LEN, CBC_LEN)
    /\ UNCHANGED <<caller, control, md, mdOpen, stretch, mem, args, geo, keys, tmp1,
                   kbuf, locked, cbc, ecb, ret, negcount, hashFailed, driver>>

\* the copy left out: tmp1 keeps its zero padding
RejoinMissing(t1, t0, m) == t1

\* memcpy(tmp1 + M, tmp0 + M, CBC_LEN - M)
Rejoin(t1, t0, m) == [i \in 1..CBC_LEN |-> IF i > m THEN t0[i] ELSE t1[i]]

\* lines 514-518: the tail's plaintext and the stolen ciphertext block
DecXor ==
    /\ pc = "d_xor"
    /\ LET t1 == PadTail(MemRead(mem, N, M), M)
           t0 == xor128(tmp0, t1)
       IN  /\ tmp0' = t0
           /\ mem' = MemWrite(mem, N, Take(t0, M))
           /\ tmp1' = Rejoin(t1, t0, M)
    /\ Access(N, M)
    /\ pc' = "d_cbc_last"
    /\ UNCHANGED <<caller, control, md, mdOpen, stretch, args, geo, keys, kbuf,
                   locked, cbc, ecb, ret, negcount, prim, hashFailed, driver>>

\* gcry_cipher_decrypt(cbc, buf + N - CBC_LEN, CBC_LEN, tmp1, CBC_LEN)
DecCbcLast ==
    /\ pc = "d_cbc_last"
    /\ \E ok \in BOOLEAN :
         /\ Primitive(ok)
         /\ IF ok
            THEN LET r == CbcDecrypt(cbc.k, cbc.iv, tmp1)
                 IN  /\ mem' = MemWrite(mem, N - CBC_LEN, r.out)
                     /\ cbc' = [cbc EXCEPT !.iv = r.iv]
            ELSE UNCHANGED <<mem, cbc>>
         /\ pc' = ErrGoto(ok, "d_ecb_close")
    /\ Access(N - CBC_LEN, CBC_LEN)
    /\ UNCHANGED <<caller, control, md, mdOpen, stretch, args, geo, keys, tmps, kbuf,
                   locked, ecb, ret, negcount, hashFailed, driver>>

\* gcry_cipher_close(gcry_aes_ecb_handle)
DecEcbClose ==
    /\ pc = "d_ecb_close"
    /\ ecb' = NoCipher
    /\ pc' = "c_close"
    /\ UNCHANGED <<caller, control, md, mdOpen, stretch, mem, args, geo, keys, tmps,
                   kbuf, locked, cbc, ret, acc, prim, hashFailed, driver>>

\* gcry_cipher_decrypt(cbc, buf, len, NULL, 0): the whole buffer, in place
DecCbcAll ==
    /\ pc = "d_cbc_all"
    /\ \E ok \in BOOLEAN :
         /\ Primitive(ok)
         /\ IF ok
            THEN LET r == CbcDecrypt(cbc.k, cbc.iv, MemRead(mem, 0, len))
                 IN  /\ mem' = MemWrite(mem, 0, r.out)
                     /\ cbc' = [cbc EXCEPT !.iv = r.iv]
            ELSE UNCHANGED <<mem, cbc>>
         /\ pc' = ErrGoto(ok, "c_close")
    /\ Access(0, len)
    /\ UNCHANGED <<caller, control, md, mdOpen, stretch, args, geo, keys, tmps, kbuf,
                   locked, ecb, ret, negcount, hashFailed, driver>>

\* gcry_cipher_close(gcry_aes_cbc_handle); ret = true
CbcClose ==
    /\ pc = "c_close"
    /\ cbc' = NoCipher
    /\ ret' = TRUE
    /\ pc' = "c_error"
    /\ UNCHANGED <<caller, control, md, mdOpen, stretch, mem, args, geo, keys, tmps,
                   kbuf, locked, ecb, acc, prim, hashFailed, driver>>

\* memset(k, 0, HASH_LEN)
Wipe(k) == Zeros(Len(k))

\* munlock of iv and key
Unlock(l) == l \ {"iv", "key"}

\* error: the key material is wiped and unpinned, ret is returned
CryptCleanup ==
    /\ pc = "c_error"
    /\ iv' = Wipe(iv)
    /\ key' = Wipe(key)
    /\ locked' = Unlock(locked)
    /\ pc' = "c_ret"
    /\ UNCHANGED <<caller, control, md, mdOpen, stretch, mem, args, geo, tmps, kbuf,
                   cbc, ecb, ret, acc, prim, hashFailed, driver>>

\* the caller has the result
CryptReturn ==
    /\ pc = "c_ret"
    /\ chain' = IF ret THEN Append(chain, dir) ELSE chain
    /\ pc' = IF caller = "decrypt_header" THEN "h_ret" ELSE "idle"
    /\ UNCHANGED <<caller, control, md, mdOpen, stretch, mem, args, geo, keys, tmps,
                   kbuf, locked, cbc, ecb, ret, acc, prim, hashFailed, orig, inbuf,
                   fields, fields0, hret>>

(* ----------------------------- decrypt_header --------------------------- *)

\* memcpy(buf, c_type, 1); memcpy(buf + 1, c_len, 8); memcpy(buf + 9, u_len, 8);
\* memcpy(buf + 17, last_head, 8)
PackHeader(m, f) ==
    MemWrite(MemWrite(MemWrite(MemWrite(m, 0, f.c_type), 1, f.c_len), 9, f.u_len),
             17, f.last_head)

\* memcpy(c_type, buf, 1); memcpy(c_len, buf + 1, 8); memcpy(u_len, buf + 9, 8);
\* memcpy(last_head, buf + 17, 8)
UnpackHeader(m) ==
    [c_type |-> MemRead(m, 0, 1), c_len |-> MemRead(m, 1, 8),
     u_len |-> MemRead(m, 9, 8), last_head |-> MemRead(m, 17, 8)]

\* head: the salt sits right in front of buf = head + SALT_LEN
FrontOf(slt) ==
    [i \in 1..CBC_LEN |-> IF i > CBC_LEN - SALT_LEN THEN slt[i - (CBC_LEN - SALT_LEN)]
                          ELSE StackJunk]

\* the writer packs the four fields behind the salt and encrypts the region
CallHeaderWrite(seed) ==
    /\ pc = "idle"
    /\ stretched
    /\ orig = <<>>
    /\ LET f == [c_type |-> Gen(seed + 2, 1), c_len |-> Gen(seed + 4, 8),
                 u_len |-> Gen(seed + 5, 8), last_head |-> Gen(seed + 6, 8)]
           m == PackHeader(Layout(FrontOf(Gen(seed + 1, SALT_LEN)),
                                  Fill(HEADER_LEN, StackJunk), HEADER_LEN), f)
       IN  /\ fields0' = f
           /\ mem' = m
           /\ orig' = MemRead(m, 0, HEADER_LEN)
           /\ inbuf' = MemRead(m, 0, HEADER_LEN)
    /\ len' = HEADER_LEN
    /\ salt' = Gen(seed + 1, SALT_LEN)
    /\ dir' = LRZ_ENCRYPT
    /\ caller' = "driver"
    /\ EnterCrypt
    /\ pc' = "c_entry"
    /\ UNCHANGED <<control, md, mdOpen, stretch, locked, chain, fields, hret>>

\* the reader has the salt in head and the encrypted fields in its variables
CallDecryptHeader(d) ==
    /\ pc = "idle"
    /\ chain = <<LRZ_ENCRYPT>>
    /\ dir = LRZ_ENCRYPT
    /\ fields0 # NoFields
    /\ fields' = UnpackHeader(mem)
    /\ mem' = [o \in Offsets |-> IF o >= 0 /\ o < HEADER_LEN THEN StackJunk ELSE mem[o]]
    /\ dir' = d
    /\ caller' = "decrypt_header"
    /\ hret' = "none"
    /\ pc' = "h_pack"
    /\ UNCHANGED <<control, md, mdOpen, stretch, len, salt, geo, keys, tmps, kbuf,
                   locked, cbc, ecb, ret, acc, prim, hashFailed, orig, inbuf, chain,
                   fields0>>

\* lines 563-570: the fields go into buf and lrz_decrypt(control, buf, 25, head, d)
HeaderPack ==
    /\ pc = "h_pack"
    /\ mem' = PackHeader(mem, fields)
    /\ inbuf' = MemRead(mem', 0, HEADER_LEN)
    /\ len' = HEADER_LEN
    /\ salt' = MemRead(mem, 0 - SALT_LEN, SALT_LEN)
    /\ EnterCrypt
    /\ pc' = "c_entry"
    /\ UNCHANGED <<caller, control, md, mdOpen, stretch, dir, locked, orig, chain, fields,
                   fields0, hret>>

\* lines 570-577: false on failure, else the fields come back out of buf
HeaderReturn ==
    /\ pc = "h_ret"
    /\ IF ~ret
       THEN /\ hret' = "false"
            /\ UNCHANGED fields
       ELSE /\ hret' = "true"
            /\ fields' = UnpackHeader(mem)
    /\ pc' = "idle"
    /\ UNCHANGED <<caller, control, md, mdOpen, stretch, mem, args, geo, keys, tmps,
                   kbuf, locked, cbc, ecb, ret, acc, prim, hashFailed, orig, inbuf,
                   chain, fields0>>

Next ==
    \/ CallStretch
    \/ StretchOpen
    \/ StretchRound
    \/ StretchReturn
    \/ \E l \in 1..MaxLen, seed \in 0..MaxSeed, d \in Directions : CallCrypt(l, seed, d)
    \/ \E d \in {LRZ_DECRYPT, LRZ_VALIDATE} : CallDecryptResult(d)
    \/ CryptEntry
    \/ KeygenCopy1
    \/ KeygenOpen
    \/ KeygenHash1
    \/ KeygenHash2
    \/ KeygenClose
    \/ CbcOpen
    \/ CbcSetkey
    \/ CbcSetiv
    \/ EncCbc
    \/ EncTail
    \/ EncSteal
    \/ DecEcbOpen
    \/ DecEcbSetkey
    \/ DecCbcHead
    \/ DecEcb
    \/ DecXor
    \/ DecCbcLast
    \/ DecEcbClose
    \/ DecCbcAll
    \/ CbcClose
    \/ CryptCleanup
    \/ CryptReturn
    \/ \E seed \in 0..MaxSeed : CallHeaderWrite(seed)
    \/ \E d \in {LRZ_DECRYPT, LRZ_VALIDATE} : CallDecryptHeader(d)
    \/ HeaderPack
    \/ HeaderReturn

Spec == Init /\ [][Next]_vars

(* ------------------- the transform as a function of its input ----------- *)

\* the key lrz_keygen derives, as lrz_crypt hands it to setkey
DerivedKey(h, slt, pass) ==
    KeygenDigest(KeygenInput(Zeros(HASH_LEN + SALT_LEN + PASS_LEN), h, slt, pass), Len(pass))

\* the iv lrz_keygen derives from the key
DerivedIv(h, slt, pass) ==
    KeygenDigest(KeygenInput(Zeros(HASH_LEN + SALT_LEN + PASS_LEN),
                             DerivedKey(h, slt, pass), slt, pass), Len(pass))

\* what the decrypting branch leaves in buf when every primitive succeeds and
\* the buffer holds a full block (lines 500-528)
Decrypted(k, v, c) ==
    LET l == Len(c)
        m == l % CBC_LEN
        nn == l - m
    IN  IF m = 0 THEN CbcDecrypt(k, v, c).out
        ELSE LET h == CbcDecrypt(k, v, SubSeq(c, 1, nn - CBC_LEN))
                 t1 == PadTail(SubSeq(c, nn + 1, l), m)
                 t0 == xor128(AesDecryptBlock(k, SubSeq(c, nn - CBC_LEN + 1, nn)), t1)
             IN  h.out \o CbcDecrypt(k, h.iv, Rejoin(t1, t0, m)).out \o Take(t0, m)

(* -------------------------------- claims -------------------------------- *)

CryptPcs == {"c_entry", "kg_copy1", "kg_open", "kg_hash1", "kg_hash2", "kg_close",
             "c_open", "c_setkey", "c_setiv", "e_cbc", "e_tail", "e_steal",
             "d_ecb_open", "d_ecb_setkey", "d_cbc_head", "d_ecb_dec", "d_xor",
             "d_cbc_last", "d_ecb_close", "d_cbc_all", "c_close", "c_error", "c_ret"}

\* a primitive failed on the provider's side, not because of its arguments
ProviderFailed == hashFailed \/ (failed /\ ~negcount)

\* the running call decrypts the buffer an ENCRYPT call of the driver produced
DecryptsResult ==
    /\ caller = "driver"
    /\ fields0 = NoFields
    /\ chain = <<LRZ_ENCRYPT>>
    /\ dir # LRZ_ENCRYPT

Buf == MemRead(mem, 0, len)

\* C1: ENCRYPT then DECRYPT with the same salt gives back the original len
\* bytes, for every len >= 1: once the decrypting call has ended with no
\* provider failure, it has returned true and buf holds the original bytes.
C1_RoundTrip ==
    (DecryptsResult /\ pc \in {"c_ret", "crashed"} /\ ~ProviderFailed)
        => (pc = "c_ret" /\ ret /\ Buf = orig)

\* C2: a header packed at offsets 0, 1, 9, 17, encrypted with the block's salt
\* and handed to decrypt_header comes back with the four original field values
\* and the result true (when no provider primitive failed), and the call runs
\* the ciphertext-stealing branch with M = 9 and N = 16.
C2_HeaderRoundTrip ==
    /\ (pc = "idle" /\ hret # "none" /\ ~ProviderFailed)
          => (hret = "true" /\ fields = fields0)
    /\ (caller = "decrypt_header" /\ pc \in CryptPcs \ {"c_entry"})
          => (M = 9 /\ N = 16 /\ pc # "d_cbc_all")
    /\ (caller = "decrypt_header" /\ pc = "crashed") => hashFailed

C2_Witness ==
    /\ pc = "idle"
    /\ hret = "true"
    /\ fields = fields0
    /\ fields0 # NoFields
    /\ inbuf # orig

\* C3: whenever lrz_crypt returns, with true or with false after a failed
\* cipher primitive, key and iv are all zero and unpinned and lrz_keygen's
\* scratch buffer is all zero.
C3_KeyMaterialWiped ==
    pc = "c_ret" =>
        /\ IsZero(key)
        /\ IsZero(iv)
        /\ IsZero(kbuf)
        /\ locked \cap {"key", "iv"} = {}

C3_Witness ==
    /\ pc = "c_ret"
    /\ ~ret
    /\ failed
    /\ cipherOps >= 4
    /\ cbc.haskey

\* C4: once lrz_stretch has completed, control->hash (the first input of every
\* later key derivation) is the final digest of the running hash that absorbed
\* all the stretching rounds.
C4_HashIsDigest == stretched => hash = MdRead(smd.ctx)

\* C5: once a hash primitive of the key derivation has failed, the call is on
\* its failure exit: it performs no cipher operation and returns false.
C5_HashFailureAborts ==
    hashFailed =>
        /\ pc \in {"c_error", "c_ret", "idle", "h_ret"}
        /\ ~ret
        /\ cipherOps = 0

\* C6: after a failed cipher primitive lrz_crypt makes no further cipher
\* primitive call (no continuation, no retry) and returns false; it returns
\* true exactly when no primitive call of the taken branch failed.
C6_FailureAborts ==
    /\ lateOps = 0
    /\ pc = "c_ret" => (ret <=> ~failed)

C6_Witness ==
    /\ pc = "c_ret"
    /\ failed
    /\ ~ret
    /\ ecb.haskey
    /\ cipherOps >= 6

\* C7: when lrz_stretch has returned, the hash context it opened is no longer
\* open.
C7_StretchReleasesContext == stretched => "lrz_stretch" \notin mdOpen

\* c with bit b of its byte i flipped
Flip(c, i, b) == [c EXCEPT ![i] = Xor8(@, 2 ^ b)]

\* C8: when a decrypting call on the ciphertext c returns true, no buffer of
\* the same length that differs from c in exactly one bit decrypts, under the
\* same salt, passphrase and global hash, to the plaintext the call produced.
C8_TamperSensitive ==
    (pc = "c_ret" /\ ret /\ dir # LRZ_ENCRYPT) =>
        LET k == Take(DerivedKey(hash, salt, salt_pass), CBC_LEN)
            v == Take(DerivedIv(hash, salt, salt_pass), CBC_LEN)
        IN  /\ Decrypted(k, v, inbuf) = Buf
            /\ \A i \in 1..len, b \in 0..7 : Decrypted(k, v, Flip(inbuf, i, b)) # Buf

C8_Witness ==
    /\ pc = "c_ret"
    /\ ret
    /\ dir = LRZ_DECRYPT
    /\ M # 0
    /\ N >= 2 * CBC_LEN

\* C9: after encryption of a buffer with M # 0 the buffer holds the CBC
\* ciphertext of the first N bytes in [0, N-16), the block T (the zero-padded
\* tail encrypted in the chain of the full blocks) in [N-16, N) and the first M
\* bytes of the last full CBC ciphertext block in [N, N+M).
C9_StolenLayout ==
    (pc = "c_close" /\ dir = LRZ_ENCRYPT /\ M # 0) =>
        LET k == Take(key, CBC_LEN)
            full == CbcEncrypt(k, Take(iv, CBC_LEN), Take(inbuf, N))
            T == CbcEncrypt(k, full.iv, PadTail(SubSeq(inbuf, N + 1, len), M)).out
        IN  /\ N >= CBC_LEN
            /\ Buf = SubSeq(full.out, 1, N - CBC_LEN) \o T
                         \o SubSeq(full.out, N - CBC_LEN + 1, N - CBC_LEN + M)

\* C10: every access lrz_crypt makes on the caller's buffer lies in [0, len)
\* and no primitive is given a negative byte count.
C10_InBounds == ~oob /\ ~negcount

\* C11: when lrz_crypt returns, on the success path and on every failure path,
\* neither the CBC handle nor the ECB handle it opened is still open.
C11_HandlesClosed == pc = "c_ret" => ~cbc.open /\ ~ecb.open

=============================================================================
